---- MODULE Spec2Model ----
(***************************************************************************)
(* Calendar synchronisation and editor state machine of schedule-bot:      *)
(* the pinia connection store (store/user.ts), the session provider        *)
(* (utils/session.ts) and the calendar component with its event editor     *)
(* (components/CalendarComponent.vue).                                     *)
(*                                                                         *)
(* The program is single threaded.  Every action below is one task of the  *)
(* event loop: a user gesture or the arrival of a response, run up to the  *)
(* next await of a backend request.  A reactive watcher job queued by a    *)
(* task runs before the next task (watchQueued).                           *)
(***************************************************************************)
EXTENDS Integers, Sequences, FiniteSets, Bags, TLC

\* ------------------------------------------------------------------------
\* Bounds of the model
\* ------------------------------------------------------------------------
MaxOps == 2
MaxSid == 2
MaxFetch == 2
MaxCalls == 2
MaxPatch == 1
MaxAttendees == 2

\* ------------------------------------------------------------------------
\* State
\* ------------------------------------------------------------------------
VARIABLES
    localStorageSid,   \* localStorage["ai_schedule_session_id"]: None or Some(id)
    uuidCount,         \* number of identifiers crypto.randomUUID() has produced
    storageAvailable   \* FALSE: every access to localStorage throws

sessionVars == <<localStorageSid, uuidCount, storageAvailable>>

VARIABLES
    authed, profile, googleConnected, googleEmail, busy, initialized, hasRefresh,
    storeOps,       \* bag of the store operations suspended at an await
    storeSettled,   \* what the caller of the last settled store operation observed
    watchQueued     \* the watcher on [authed, googleConnected] has a job queued

storeVars == <<authed, profile, googleConnected, googleEmail, busy, initialized,
               hasRefresh, storeOps, storeSettled>>

VARIABLES
    displayed,       \* the events the grid holds (the list last given to success)
    fetchInFlight,   \* GET /google/calendar/events requests awaiting a response
    refetches        \* ghost: what the last step that used the grid asked of it

gridVars == <<displayed, fetchInFlight, refetches>>

VARIABLES
    modal,           \* the reactive editor session and form
    saving,          \* the Saving / Deleting flag
    attendeeInput, attendeeError,
    calls,           \* bag of the create / update / delete requests in flight
    patchInFlight,   \* drag / resize PATCH requests in flight
    editorSettled    \* ghost: how the last save or delete ended

editorVars == <<modal, saving, attendeeInput, attendeeError, calls, patchInFlight, editorSettled>>

vars == <<sessionVars, storeVars, watchQueued, gridVars, editorVars>>

\* ------------------------------------------------------------------------
\* Values
\* ------------------------------------------------------------------------
\* A nullable / optional JavaScript value: null or undefined is the empty
\* sequence, a present value v is <<v>>.
None == <<>>
Some(v) == <<v>>
IsSome(o) == o # None
Get(o) == o[1]

\* Text is a sequence of one-character strings.
EmptyText == <<>>
Str(c) == <<c>>

\* ------------------------------------------------------------------------
\* Session provider
\* ------------------------------------------------------------------------
\* getSessionId() needs a fresh identifier only when none is stored.
CanGetSessionId == IsSome(localStorageSid) \/ uuidCount < MaxSid

\* getSessionId() has no try/catch: localStorage.getItem throws through it.
getSessionIdThrows == ~storageAvailable

\* The identifier getSessionId() returns.
getSessionId == IF IsSome(localStorageSid) THEN Get(localStorageSid) ELSE uuidCount + 1

\* A getSessionId() that generates an identifier without storing it.
GetSessionIdNoPersist ==
    /\ ~getSessionIdThrows
    /\ storageAvailable' = storageAvailable
    /\ localStorageSid' = localStorageSid
    /\ uuidCount' = IF IsSome(localStorageSid) THEN uuidCount ELSE uuidCount + 1

\* The effect of getSessionId() on the storage.
GetSessionIdEffect ==
    /\ ~getSessionIdThrows
    /\ storageAvailable' = storageAvailable
    /\ localStorageSid' = Some(getSessionId)
    /\ uuidCount' = IF IsSome(localStorageSid) THEN uuidCount ELSE uuidCount + 1

\* isReady as a getter that forgets the calendar connection.
isReadyAuthedOnly == authed

\* ------------------------------------------------------------------------
\* Connection state store
\* ------------------------------------------------------------------------
\* The getter isReady: s.authed && s.googleConnected.
isReady == IF authed THEN googleConnected ELSE authed

EmptyProfile == [name |-> EmptyText, email |-> None, avatarUrl |-> None]

\* Bodies of the status endpoint's responses (data). Each field may be absent.
StatusResponses ==
    { [connected |-> Some(TRUE),  email |-> Some(Str("e")), profile |-> Some([name |-> Str("A")]), has_refresh |-> Some(TRUE)],
      [connected |-> Some(FALSE), email |-> Some(Str("e")), profile |-> None,                      has_refresh |-> None],
      [connected |-> Some(TRUE),  email |-> None,           profile |-> None,                      has_refresh |-> Some(FALSE)],
      [connected |-> None,        email |-> None,           profile |-> None,                      has_refresh |-> None] }

\* Every shape of the body over absent / falsy / truthy fields.
StatusBodies ==
    [connected : {None, Some(FALSE), Some(TRUE)},
     email : {None, Some(EmptyText), Some(Str("e"))},
     profile : {None, Some([name |-> Str("A")])},
     has_refresh : {None, Some(FALSE), Some(TRUE)}]

\* JavaScript truthiness of an optional boolean / text / object.
TruthyBool(o) == IsSome(o) /\ Get(o)
TruthyText(o) == IsSome(o) /\ Get(o) # EmptyText

NoneSettled == [kind |-> "none", outcome |-> "none", returned |-> "none"]

Op(kind, pc) == [kind |-> kind, pc |-> pc]
OpsAt(pc) == {o \in BagToSet(storeOps) : o.pc = pc}
AddOp(o) == storeOps (+) SetToBag({o})
MoveOp(o, pc) == (storeOps (-) SetToBag({o})) (+) SetToBag({Op(o.kind, pc)})
DelOp(o) == storeOps (-) SetToBag({o})
CanStartOp == BagCardinality(storeOps) < MaxOps

\* No reactive job is queued: the event loop takes the next task.
Idle == ~watchQueued

\* watch(() => [user.authed, user.googleConnected], ...): a job is queued by
\* a task that changed one of the two watched fields.
WatchTrigger == watchQueued' = (authed' # authed \/ googleConnected' # googleConnected)

\* An ApplyStatus that takes authed from the profile alone.
ApplyStatusProfileOnly(data) ==
    /\ googleConnected' = TruthyBool(data.connected)
    /\ googleEmail' = data.email
    /\ IF IsSome(data.profile)
       THEN /\ authed' = TRUE
            /\ profile' = [name |-> Get(data.profile).name,
                           email |-> IF IsSome(data.email) THEN data.email ELSE Some(EmptyText),
                           avatarUrl |-> Some(EmptyText)]
       ELSE /\ authed' = FALSE
            /\ profile' = EmptyProfile
    /\ hasRefresh' = TruthyBool(data.has_refresh)

\* The assignments of fetchGoogleStatus() after a successful status request.
ApplyStatus(data) ==
    /\ googleConnected' = TruthyBool(data.connected)
    /\ googleEmail' = data.email
    /\ IF IsSome(data.profile) \/ TruthyText(data.email)
       THEN /\ authed' = TRUE
            /\ profile' = [name |-> IF IsSome(data.profile) THEN Get(data.profile).name ELSE EmptyText,
                           email |-> IF IsSome(data.email) THEN data.email ELSE Some(EmptyText),
                           avatarUrl |-> Some(EmptyText)]
       ELSE /\ authed' = FALSE
            /\ profile' = EmptyProfile
    /\ hasRefresh' = TruthyBool(data.has_refresh)

\* A failed status request assigns nothing but initialized (the finally).
KeepStatus == UNCHANGED <<googleConnected, googleEmail, authed, profile, hasRefresh>>

BoolStr(b) == IF b THEN "true" ELSE "false"

\* What the operation that awaited fetchGoogleStatus() does when it resolved.
AfterStatusOk(o) ==
    /\ storeOps' = DelOp(o)
    /\ IF o.kind = "fetch"
       THEN /\ storeSettled' = [kind |-> "fetch", outcome |-> "ok", returned |-> "void"]
            /\ busy' = busy
       ELSE IF o.kind = "login"
       THEN /\ storeSettled' = [kind |-> "login", outcome |-> "ok", returned |-> BoolStr(googleConnected')]
            /\ busy' = FALSE
       ELSE /\ storeSettled' = [kind |-> "disconnect", outcome |-> "ok", returned |-> "void"]
            /\ busy' = FALSE

\* A loginAndConnect() without its catch: the rejection of the status fetch
\* goes to the caller.
AfterStatusFailNoCatch(o) ==
    /\ storeOps' = DelOp(o)
    /\ storeSettled' = [kind |-> o.kind, outcome |-> "statusFail", returned |-> "throw"]
    /\ busy' = IF o.kind = "fetch" THEN busy ELSE FALSE

\* What the operation that awaited fetchGoogleStatus() does when it rejected:
\* loginAndConnect catches, the two others let the rejection through.
AfterStatusFail(o) ==
    /\ storeOps' = DelOp(o)
    /\ IF o.kind = "fetch"
       THEN /\ storeSettled' = [kind |-> "fetch", outcome |-> "statusFail", returned |-> "throw"]
            /\ busy' = busy
       ELSE IF o.kind = "login"
       THEN /\ storeSettled' = [kind |-> "login", outcome |-> "statusFail", returned |-> "false"]
            /\ busy' = FALSE
       ELSE /\ storeSettled' = [kind |-> "disconnect", outcome |-> "statusFail", returned |-> "throw"]
            /\ busy' = FALSE

\* fetchGoogleStatus() called directly (MainView.setup): up to the await.
fetchGoogleStatus ==
    /\ Idle
    /\ IF getSessionIdThrows
       THEN /\ initialized' = TRUE
            /\ storeSettled' = [kind |-> "fetch", outcome |-> "storageFail", returned |-> "throw"]
            /\ UNCHANGED <<storeOps, sessionVars>>
       ELSE /\ CanStartOp /\ CanGetSessionId
            /\ GetSessionIdEffect
            /\ storeOps' = AddOp(Op("fetch", "status"))
            /\ UNCHANGED <<initialized, storeSettled>>
    /\ UNCHANGED <<authed, profile, googleConnected, googleEmail, busy,
                   hasRefresh, watchQueued>>
    /\ UNCHANGED <<gridVars, editorVars>>

\* The status request of operation o succeeds with body data.
StatusOk(o, data) ==
    /\ Idle /\ o \in OpsAt("status")
    /\ ApplyStatus(data)
    /\ initialized' = TRUE
    /\ AfterStatusOk(o)
    /\ WatchTrigger
    /\ UNCHANGED sessionVars
    /\ UNCHANGED <<gridVars, editorVars>>

\* fetchGoogleStatus() without the finally: a failure leaves initialized alone.
StatusFailNoFinally(o) ==
    /\ Idle /\ o \in OpsAt("status")
    /\ KeepStatus
    /\ initialized' = initialized
    /\ AfterStatusFail(o)
    /\ WatchTrigger
    /\ UNCHANGED sessionVars
    /\ UNCHANGED <<gridVars, editorVars>>

\* A fetchGoogleStatus() that falls back to the anonymous state when its
\* request fails.
StatusFailResetsStatus(o) ==
    /\ Idle /\ o \in OpsAt("status")
    /\ authed' = FALSE
    /\ profile' = EmptyProfile
    /\ googleConnected' = FALSE
    /\ googleEmail' = None
    /\ hasRefresh' = FALSE
    /\ initialized' = TRUE
    /\ AfterStatusFail(o)
    /\ WatchTrigger
    /\ UNCHANGED sessionVars
    /\ UNCHANGED <<gridVars, editorVars>>

\* The status request of operation o fails.
StatusFail(o) ==
    /\ Idle /\ o \in OpsAt("status")
    /\ KeepStatus
    /\ initialized' = TRUE
    /\ AfterStatusFail(o)
    /\ WatchTrigger
    /\ UNCHANGED sessionVars
    /\ UNCHANGED <<gridVars, editorVars>>

\* loginAndConnect() up to its first await. When the identity library is not
\* loaded requestGoogleCode throws synchronously: catch, finally.
loginAndConnect(libLoaded) ==
    /\ Idle
    /\ IF libLoaded
       THEN /\ CanStartOp
            /\ busy' = TRUE
            /\ storeOps' = AddOp(Op("login", "code"))
            /\ storeSettled' = storeSettled
       ELSE /\ busy' = FALSE
            /\ storeOps' = storeOps
            /\ storeSettled' = [kind |-> "login", outcome |-> "noLibrary", returned |-> "false"]
    /\ UNCHANGED <<authed, profile, googleConnected, googleEmail, initialized, hasRefresh,
                   watchQueued, sessionVars>>
    /\ UNCHANGED <<gridVars, editorVars>>

\* The popup calls back: code is None when the user cancelled.
CodeReceived(o, code) ==
    /\ Idle /\ o \in OpsAt("code")
    /\ IF IsSome(code) /\ getSessionIdThrows
       THEN /\ busy' = FALSE
            /\ storeOps' = DelOp(o)
            /\ storeSettled' = [kind |-> "login", outcome |-> "storageFail", returned |-> "false"]
            /\ UNCHANGED sessionVars
       ELSE IF IsSome(code)
       THEN /\ CanGetSessionId
            /\ GetSessionIdEffect
            /\ storeOps' = MoveOp(o, "connect")
            /\ UNCHANGED <<busy, storeSettled>>
       ELSE /\ busy' = FALSE
            /\ storeOps' = DelOp(o)
            /\ storeSettled' = [kind |-> "login", outcome |-> "cancelled", returned |-> "false"]
            /\ UNCHANGED sessionVars
    /\ UNCHANGED <<authed, profile, googleConnected, googleEmail, initialized, hasRefresh,
                   watchQueued>>
    /\ UNCHANGED <<gridVars, editorVars>>

\* POST /auth/google/connect succeeds: loginAndConnect calls fetchGoogleStatus.
ConnectOk(o) ==
    /\ Idle /\ o \in OpsAt("connect")
    /\ IF getSessionIdThrows
       THEN /\ initialized' = TRUE
            /\ busy' = FALSE
            /\ storeOps' = DelOp(o)
            /\ storeSettled' = [kind |-> "login", outcome |-> "storageFail", returned |-> "false"]
            /\ UNCHANGED sessionVars
       ELSE /\ CanGetSessionId
            /\ GetSessionIdEffect
            /\ storeOps' = MoveOp(o, "status")
            /\ UNCHANGED <<busy, initialized, storeSettled>>
    /\ UNCHANGED <<authed, profile, googleConnected, googleEmail,
                   hasRefresh, watchQueued>>
    /\ UNCHANGED <<gridVars, editorVars>>

\* loginAndConnect() without the finally: a failed connect leaves busy set.
ConnectFailKeepsBusy(o) ==
    /\ Idle /\ o \in OpsAt("connect")
    /\ busy' = busy
    /\ storeOps' = DelOp(o)
    /\ storeSettled' = [kind |-> "login", outcome |-> "connectFail", returned |-> "false"]
    /\ UNCHANGED <<authed, profile, googleConnected, googleEmail, initialized, hasRefresh,
                   watchQueued, sessionVars>>
    /\ UNCHANGED <<gridVars, editorVars>>

\* POST /auth/google/connect fails: catch, finally.
ConnectFail(o) ==
    /\ Idle /\ o \in OpsAt("connect")
    /\ busy' = FALSE
    /\ storeOps' = DelOp(o)
    /\ storeSettled' = [kind |-> "login", outcome |-> "connectFail", returned |-> "false"]
    /\ UNCHANGED <<authed, profile, googleConnected, googleEmail, initialized, hasRefresh,
                   watchQueued, sessionVars>>
    /\ UNCHANGED <<gridVars, editorVars>>

\* disconnectGoogle() up to the await of the POST.
disconnectGoogle ==
    /\ Idle
    /\ IF getSessionIdThrows
       THEN /\ busy' = FALSE
            /\ storeSettled' = [kind |-> "disconnect", outcome |-> "storageFail", returned |-> "throw"]
            /\ UNCHANGED <<storeOps, sessionVars>>
       ELSE /\ CanStartOp /\ CanGetSessionId
            /\ busy' = TRUE
            /\ GetSessionIdEffect
            /\ storeOps' = AddOp(Op("disconnect", "post"))
            /\ storeSettled' = storeSettled
    /\ UNCHANGED <<authed, profile, googleConnected, googleEmail, initialized, hasRefresh,
                   watchQueued>>
    /\ UNCHANGED <<gridVars, editorVars>>

\* A disconnectGoogle() that settles after the POST without fetchGoogleStatus.
DisconnectOkNoRefetch(o) ==
    /\ Idle /\ o \in OpsAt("post")
    /\ busy' = FALSE
    /\ storeOps' = DelOp(o)
    /\ storeSettled' = [kind |-> "disconnect", outcome |-> "ok", returned |-> "void"]
    /\ UNCHANGED <<authed, profile, googleConnected, googleEmail, initialized, hasRefresh,
                   watchQueued, sessionVars>>
    /\ UNCHANGED <<gridVars, editorVars>>

\* POST /auth/google/disconnect succeeds: disconnectGoogle calls fetchGoogleStatus.
DisconnectOk(o) ==
    /\ Idle /\ o \in OpsAt("post")
    /\ IF getSessionIdThrows
       THEN /\ initialized' = TRUE
            /\ busy' = FALSE
            /\ storeOps' = DelOp(o)
            /\ storeSettled' = [kind |-> "disconnect", outcome |-> "storageFail", returned |-> "throw"]
            /\ UNCHANGED sessionVars
       ELSE /\ CanGetSessionId
            /\ GetSessionIdEffect
            /\ storeOps' = MoveOp(o, "status")
            /\ UNCHANGED <<busy, initialized, storeSettled>>
    /\ UNCHANGED <<authed, profile, googleConnected, googleEmail,
                   hasRefresh, watchQueued>>
    /\ UNCHANGED <<gridVars, editorVars>>

\* POST /auth/google/disconnect fails: finally, the rejection goes to the caller.
DisconnectFail(o) ==
    /\ Idle /\ o \in OpsAt("post")
    /\ busy' = FALSE
    /\ storeOps' = DelOp(o)
    /\ storeSettled' = [kind |-> "disconnect", outcome |-> "postFail", returned |-> "throw"]
    /\ UNCHANGED <<authed, profile, googleConnected, googleEmail, initialized, hasRefresh,
                   watchQueued, sessionVars>>
    /\ UNCHANGED <<gridVars, editorVars>>

\* logout() that puts the store back to its initial state, initialized included.
logoutResetsInitialized ==
    /\ Idle
    /\ authed' = FALSE
    /\ googleConnected' = FALSE
    /\ googleEmail' = None
    /\ profile' = EmptyProfile
    /\ localStorageSid' = None
    /\ initialized' = FALSE
    /\ WatchTrigger
    /\ UNCHANGED <<busy, hasRefresh, storeOps, storeSettled, uuidCount, storageAvailable>>
    /\ UNCHANGED <<gridVars, editorVars>>

\* logout() that leaves the session identifier in localStorage.
logoutKeepsSession ==
    /\ Idle
    /\ authed' = FALSE
    /\ googleConnected' = FALSE
    /\ googleEmail' = None
    /\ profile' = EmptyProfile
    /\ localStorageSid' = localStorageSid
    /\ initialized' = TRUE
    /\ WatchTrigger
    /\ UNCHANGED <<busy, hasRefresh, storeOps, storeSettled, uuidCount, storageAvailable>>
    /\ UNCHANGED <<gridVars, editorVars>>

logout ==
    /\ Idle
    /\ authed' = FALSE
    /\ googleConnected' = FALSE
    /\ googleEmail' = None
    /\ profile' = EmptyProfile
    /\ IF storageAvailable
       THEN localStorageSid' = None /\ initialized' = TRUE
       ELSE localStorageSid' = localStorageSid /\ initialized' = initialized
    /\ WatchTrigger
    /\ UNCHANGED <<busy, hasRefresh, storeOps, storeSettled, uuidCount, storageAvailable>>
    /\ UNCHANGED <<gridVars, editorVars>>

\* ------------------------------------------------------------------------
\* Event mapper and calendar grid
\* ------------------------------------------------------------------------
\* Instants and local date-time strings are minutes; oneHour is 60 * 60 * 1000 ms.
oneHour == 60

\* Events of the backend (Google Calendar wire schema).
WireTimed ==
    [id |-> "ev1", summary |-> Some(Str("S")),
     start |-> [dateTime |-> Some(600), date |-> None],
     end |-> [dateTime |-> Some(630), date |-> None],
     location |-> Some(Str("L")), description |-> None,
     attendees |-> Some(<<[email |-> Some(<<"a", "@", "b", ".", "c">>)], [email |-> None]>>),
     _calendarId |-> Some("work")]
WireAllDay ==
    [id |-> "ev2", summary |-> None,
     start |-> [dateTime |-> None, date |-> Some(1440)],
     end |-> [dateTime |-> None, date |-> Some(2880)],
     location |-> None, description |-> Some(Str("D")),
     attendees |-> Some(<<[email |-> Some(<<"x">>)]>>),
     _calendarId |-> None]

\* Wire events over every presence of start / end dateTime and date.
WireShapes ==
    [id : {"ev1"}, summary : {Some(Str("S"))},
     start : [dateTime : {None, Some(600)}, date : {None, Some(1440)}],
     end : [dateTime : {None, Some(630)}, date : {None, Some(2880)}],
     location : {None}, description : {None}, attendees : {None},
     _calendarId : {Some("work")}]

\* Bodies of the list-events endpoint's responses (data.items).
ItemLists == {<<>>, <<WireTimed>>, <<WireTimed, WireAllDay>>}

DefaultTitle == <<"(", ")">>

\* e.attendees.map((a) => a?.email).filter(Boolean)
AttendeeEmails(list) ==
    LET emails == SelectSeq([i \in 1..Len(list) |-> list[i].email], TruthyText)
    IN [i \in 1..Len(emails) |-> Get(emails[i])]
\* A mapFromBackend whose allDay looks at start.date alone.
mapFromBackendAllDayByDate(e) ==
    [id |-> e.id,
     title |-> IF TruthyText(e.summary) THEN Get(e.summary) ELSE DefaultTitle,
     start |-> IF IsSome(e.start.dateTime) THEN e.start.dateTime ELSE e.start.date,
     end |-> IF IsSome(e.end.dateTime) THEN e.end.dateTime ELSE e.end.date,
     allDay |-> IsSome(e.start.date),
     extendedProps |->
        [calendarId |-> IF IsSome(e._calendarId) /\ Get(e._calendarId) # "" THEN Get(e._calendarId) ELSE "primary",
         location |-> IF TruthyText(e.location) THEN Get(e.location) ELSE EmptyText,
         description |-> IF TruthyText(e.description) THEN Get(e.description) ELSE EmptyText,
         attendees |-> IF IsSome(e.attendees) THEN AttendeeEmails(Get(e.attendees)) ELSE <<>>]]

mapFromBackend(e) ==
    [id |-> e.id,
     title |-> IF TruthyText(e.summary) THEN Get(e.summary) ELSE DefaultTitle,
     start |-> IF IsSome(e.start.dateTime) THEN e.start.dateTime ELSE e.start.date,
     end |-> IF IsSome(e.end.dateTime) THEN e.end.dateTime ELSE e.end.date,
     allDay |-> IsSome(e.start.date) /\ ~IsSome(e.start.dateTime),
     extendedProps |->
        [calendarId |-> IF IsSome(e._calendarId) /\ Get(e._calendarId) # "" THEN Get(e._calendarId) ELSE "primary",
         location |-> IF TruthyText(e.location) THEN Get(e.location) ELSE EmptyText,
         description |-> IF TruthyText(e.description) THEN Get(e.description) ELSE EmptyText,
         attendees |-> IF IsSome(e.attendees) THEN AttendeeEmails(Get(e.attendees)) ELSE <<>>]]

\* options.events up to its await: the connection gate, then the request.
CanCallEvents == isReady => fetchInFlight < MaxFetch
\* options.events with a gate that only looks at authed.
eventsCallbackAuthedGate ==
    IF ~authed
    THEN /\ displayed' = <<>>
         /\ fetchInFlight' = fetchInFlight
    ELSE /\ displayed' = displayed
         /\ fetchInFlight' = fetchInFlight + 1

eventsCallback ==
    IF ~authed \/ ~googleConnected
    THEN /\ displayed' = <<>>
         /\ fetchInFlight' = fetchInFlight
    ELSE /\ displayed' = displayed
         /\ fetchInFlight' = fetchInFlight + 1

\* fullcal.getApi().refetchEvents(): the grid calls options.events again.
CanRefetch == CanCallEvents
refetchEvents ==
    /\ eventsCallback
    /\ refetches' = IF isReady THEN "requested" ELSE "gated"

\* The grid asks for a range by itself (first render, navigation).
FetchRange ==
    /\ Idle /\ CanCallEvents
    /\ eventsCallback
    /\ refetches' = IF isReady THEN "requested" ELSE "gated"
    /\ UNCHANGED <<sessionVars, storeVars, watchQueued>>
    /\ UNCHANGED editorVars

\* The list request succeeds with data.items = items: success(events).
FetchOk(items) ==
    /\ Idle /\ fetchInFlight > 0
    /\ displayed' = [i \in 1..Len(items) |-> mapFromBackend(items[i])]
    /\ fetchInFlight' = fetchInFlight - 1
    /\ refetches' = "none"
    /\ UNCHANGED <<sessionVars, storeVars, watchQueued>>
    /\ UNCHANGED editorVars

\* The list request fails: failure(e).
FetchFail ==
    /\ Idle /\ fetchInFlight > 0
    /\ fetchInFlight' = fetchInFlight - 1
    /\ refetches' = "none"
    /\ UNCHANGED <<displayed, sessionVars, storeVars, watchQueued>>
    /\ UNCHANGED editorVars

\* The job of watch(() => [user.authed, user.googleConnected]).
WatchConnection ==
    /\ watchQueued
    /\ watchQueued' = FALSE
    /\ IF authed /\ googleConnected
       THEN CanRefetch /\ refetchEvents
       ELSE /\ displayed' = <<>>
            /\ refetches' = "removed"
            /\ fetchInFlight' = fetchInFlight
    /\ UNCHANGED <<sessionVars, storeVars>>
    /\ UNCHANGED editorVars

\* ------------------------------------------------------------------------
\* Event editor
\* ------------------------------------------------------------------------
IsSpace(c) == c = " "
RECURSIVE TrimStart(_)
TrimStart(t) == IF t # <<>> /\ IsSpace(Head(t)) THEN TrimStart(Tail(t)) ELSE t
RECURSIVE TrimEnd(_)
TrimEnd(t) == IF t # <<>> /\ IsSpace(t[Len(t)]) THEN TrimEnd(SubSeq(t, 1, Len(t) - 1)) ELSE t
Trim(t) == TrimEnd(TrimStart(t))

\* A non-empty run of characters other than white space and "@": [^\s@]+
IsWord(t) == t # <<>> /\ \A k \in 1..Len(t) : ~IsSpace(t[k]) /\ t[k] # "@"
\* /^[^\s@]+@[^\s@]+\.[^\s@]+$/
emailRegex(t) ==
    \E i \in 1..Len(t), j \in 1..Len(t) :
        /\ i < j
        /\ t[i] = "@"
        /\ t[j] = "."
        /\ IsWord(SubSeq(t, 1, i - 1))
        /\ IsWord(SubSeq(t, i + 1, j - 1))
        /\ IsWord(SubSeq(t, j + 1, Len(t)))
isValidEmail(t) == emailRegex(Trim(t))

\* The offset of the browser's local zone, in minutes.
LocalOffset == 540
\* new Date(local): a local date-time string read as an instant.
DateOfLocal(l) == l - LocalOffset
\* toLocalInput: "" for an empty argument, else the local date-time string.
toLocalInput(iso) == IF IsSome(iso) THEN Some(Get(iso) + LocalOffset) ELSE None

\* An ensureEndAfterStart that lets an end equal to the start through.
ensureEndAfterStartAllowsEqual(start, end) ==
    LET s == start
        e0 == IF IsSome(end) THEN Get(end) ELSE s + oneHour
        e == IF e0 < s THEN s + oneHour ELSE e0
    IN [start |-> s, end |-> e]

ensureEndAfterStart(start, end) ==
    LET s == start
        e0 == IF IsSome(end) THEN Get(end) ELSE s + oneHour
        e == IF e0 <= s THEN s + oneHour ELSE e0
    IN [start |-> s, end |-> e]

NeutralModal ==
    [open |-> FALSE, mode |-> "create", id |-> None, calendarId |-> None,
     title |-> EmptyText, startLocal |-> None, endLocal |-> None,
     fromAllDay |-> FALSE, initialEndLocal |-> None,
     location |-> EmptyText, description |-> EmptyText,
     attendees |-> <<>>, notifyAttendees |-> FALSE]

\* An openCreate that takes the range end whenever there is one.
openCreateKeepsRangeEnd(title, startStr, endStr, allDay) ==
    LET startLocal == toLocalInput(startStr)
        plusHour == toLocalInput(Some(DateOfLocal(Get(startLocal)) + oneHour))
        endLocal == IF IsSome(endStr) THEN toLocalInput(endStr) ELSE plusHour
    IN /\ modal' = [open |-> TRUE, mode |-> "create", id |-> None, calendarId |-> Some("primary"),
                    title |-> title, startLocal |-> startLocal, endLocal |-> endLocal,
                    fromAllDay |-> allDay, initialEndLocal |-> endLocal,
                    location |-> EmptyText, description |-> EmptyText,
                    attendees |-> <<>>, notifyAttendees |-> FALSE]
       /\ attendeeInput' = EmptyText
       /\ attendeeError' = None

openCreate(title, startStr, endStr, allDay) ==
    LET startLocal == toLocalInput(startStr)
        plusHour == toLocalInput(Some(DateOfLocal(Get(startLocal)) + oneHour))
        endLocal == IF allDay THEN plusHour
                    ELSE IF IsSome(endStr) THEN toLocalInput(endStr) ELSE plusHour
    IN /\ modal' = [open |-> TRUE, mode |-> "create", id |-> None, calendarId |-> Some("primary"),
                    title |-> title, startLocal |-> startLocal, endLocal |-> endLocal,
                    fromAllDay |-> allDay, initialEndLocal |-> endLocal,
                    location |-> EmptyText, description |-> EmptyText,
                    attendees |-> <<>>, notifyAttendees |-> FALSE]
       /\ attendeeInput' = EmptyText
       /\ attendeeError' = None

\* An openEdit that targets the primary calendar whatever the event's is.
openEditOnPrimary(id, title, startStr, endStr, calendarId, extra) ==
    /\ modal' = [open |-> TRUE, mode |-> "edit", id |-> Some(id),
                 calendarId |-> Some("primary"),
                 title |-> title, startLocal |-> toLocalInput(startStr),
                 endLocal |-> toLocalInput(endStr),
                 fromAllDay |-> FALSE, initialEndLocal |-> toLocalInput(endStr),
                 location |-> extra.location, description |-> extra.description,
                 attendees |-> extra.attendees, notifyAttendees |-> FALSE]
    /\ attendeeInput' = EmptyText
    /\ attendeeError' = None

openEdit(id, title, startStr, endStr, calendarId, extra) ==
    /\ modal' = [open |-> TRUE, mode |-> "edit", id |-> Some(id),
                 calendarId |-> Some(IF calendarId # "" THEN calendarId ELSE "primary"),
                 title |-> title, startLocal |-> toLocalInput(startStr),
                 endLocal |-> toLocalInput(endStr),
                 fromAllDay |-> FALSE, initialEndLocal |-> toLocalInput(endStr),
                 location |-> extra.location, description |-> extra.description,
                 attendees |-> extra.attendees, notifyAttendees |-> FALSE]
    /\ attendeeInput' = EmptyText
    /\ attendeeError' = None

\* A closeModal() that leaves the attendee list in place.
closeModalKeepsAttendees ==
    /\ modal' = [NeutralModal EXCEPT !.attendees = modal.attendees]
    /\ attendeeInput' = EmptyText
    /\ attendeeError' = None

closeModal ==
    /\ modal' = NeutralModal
    /\ attendeeInput' = EmptyText
    /\ attendeeError' = None

\* The editor (v-if="modal.open") is an overlay over the whole page: the grid
\* takes no pointer gesture while it is open.
GridReachable == ~modal.open

\* A range selected on the grid.
Selections ==
    { [startStr |-> Some(600), endStr |-> Some(690), allDay |-> FALSE],
      [startStr |-> Some(1440), endStr |-> Some(2880), allDay |-> TRUE] }

\* Arguments of openCreate over timed / all-day, with and without an end.
SelectionShapes ==
    [startStr : {Some(600), Some(1440)}, endStr : {None, Some(690), Some(2880)}, allDay : BOOLEAN]

\* options.select
select(info) ==
    /\ Idle /\ GridReachable
    /\ IF ~authed \/ ~googleConnected
       THEN /\ UNCHANGED <<modal, attendeeInput, attendeeError>>
            /\ editorSettled' = [op |-> "select", outcome |-> "gated"]
       ELSE /\ openCreate(EmptyText, info.startStr, info.endStr, info.allDay)
            /\ UNCHANGED editorSettled
    /\ UNCHANGED <<saving, calls, patchInFlight>>
    /\ UNCHANGED <<sessionVars, storeVars, watchQueued, gridVars>>

\* options.eventClick on the k-th event of the grid
eventClick(k) ==
    /\ Idle /\ GridReachable
    /\ k \in 1..Len(displayed)
    /\ IF ~authed \/ ~googleConnected
       THEN /\ UNCHANGED <<modal, attendeeInput, attendeeError>>
            /\ editorSettled' = [op |-> "eventClick", outcome |-> "gated"]
       ELSE /\ LET ev == displayed[k]
               IN openEdit(ev.id, ev.title, ev.start, ev.end,
                           IF ev.extendedProps.calendarId # "" THEN ev.extendedProps.calendarId ELSE "primary",
                           [location |-> ev.extendedProps.location,
                            description |-> ev.extendedProps.description,
                            attendees |-> ev.extendedProps.attendees])
            /\ UNCHANGED editorSettled
    /\ UNCHANGED <<saving, calls, patchInFlight>>
    /\ UNCHANGED <<sessionVars, storeVars, watchQueued, gridVars>>

\* An eventDrop / eventResize that sends its PATCH without looking at the gate.
eventDropNoGate(k) ==
    /\ Idle /\ GridReachable
    /\ k \in 1..Len(displayed)
    /\ patchInFlight < MaxPatch /\ patchInFlight' = patchInFlight + 1
    /\ UNCHANGED <<modal, saving, attendeeInput, attendeeError, calls, editorSettled>>
    /\ UNCHANGED <<sessionVars, storeVars, watchQueued, gridVars>>

\* options.eventDrop and options.eventResize: the gate, then the PATCH.
eventDrop(k) ==
    /\ Idle /\ GridReachable
    /\ k \in 1..Len(displayed)
    /\ IF ~authed \/ ~googleConnected
       THEN /\ patchInFlight' = patchInFlight
            /\ editorSettled' = [op |-> "eventDrop", outcome |-> "gated"]
       ELSE /\ patchInFlight < MaxPatch /\ patchInFlight' = patchInFlight + 1
            /\ UNCHANGED editorSettled
    /\ UNCHANGED <<modal, saving, attendeeInput, attendeeError, calls>>
    /\ UNCHANGED <<sessionVars, storeVars, watchQueued, gridVars>>

\* The PATCH of a drag or resize succeeds: refetchEvents().
PatchOk ==
    /\ Idle /\ patchInFlight > 0
    /\ patchInFlight' = patchInFlight - 1
    /\ CanRefetch /\ refetchEvents
    /\ UNCHANGED <<modal, saving, attendeeInput, attendeeError, calls, editorSettled>>
    /\ UNCHANGED <<sessionVars, storeVars, watchQueued>>

\* The PATCH of a drag or resize fails: the handler rejects, nothing else runs.
PatchFail ==
    /\ Idle /\ patchInFlight > 0
    /\ patchInFlight' = patchInFlight - 1
    /\ UNCHANGED <<modal, saving, attendeeInput, attendeeError, calls, editorSettled>>
    /\ UNCHANGED <<sessionVars, storeVars, watchQueued, gridVars>>

\* What the user may pick in the two datetime-local inputs (local minutes).
LocalTimes == {600, 630, 660, 690}

\* What the user may type into the location and description fields.
FieldTexts == {EmptyText, <<" ">>, <<" ", "L", " ">>, <<"L">>}

\* Titles with and without white space around them, and of white space only.
SummaryTitles == {EmptyText, <<" ">>, <<" ", "T">>, <<"T">>}

\* What the user may type into the text fields and the attendee input.
Titles == {EmptyText, <<"T">>}
RawAttendees == {<<"c", "@", "d", ".", "e">>, <<" ", "a", "@", "b", ".", "c">>, <<"x", "@", "y">>, <<" ">>}

\* v-model on a field of the form
EditField(field, value) ==
    /\ Idle /\ modal.open
    /\ modal' = [modal EXCEPT ![field] = value]
    /\ UNCHANGED <<saving, attendeeInput, attendeeError, calls, patchInFlight, editorSettled>>
    /\ UNCHANGED <<sessionVars, storeVars, watchQueued, gridVars>>

\* v-model.trim="attendeeInput"
TypeAttendee(raw) ==
    /\ Idle /\ modal.open
    /\ attendeeInput' = Trim(raw)
    /\ UNCHANGED <<modal, saving, attendeeError, calls, patchInFlight, editorSettled>>
    /\ UNCHANGED <<sessionVars, storeVars, watchQueued, gridVars>>

Includes(list, v) == \E k \in 1..Len(list) : list[k] = v

\* A tryAddAttendee that pushes without looking for the email in the list.
tryAddAttendeeNoIncludes ==
    /\ Idle /\ modal.open
    /\ LET v == Trim(attendeeInput)
       IN IF v = EmptyText
          THEN /\ attendeeError' = None
               /\ UNCHANGED <<modal, attendeeInput>>
          ELSE IF ~isValidEmail(v)
          THEN /\ attendeeError' = Some("format")
               /\ UNCHANGED <<modal, attendeeInput>>
          ELSE /\ attendeeError' = None
               /\ Len(modal.attendees) < MaxAttendees
               /\ modal' = [modal EXCEPT !.attendees = Append(@, v)]
               /\ attendeeInput' = EmptyText
    /\ UNCHANGED <<saving, calls, patchInFlight, editorSettled>>
    /\ UNCHANGED <<sessionVars, storeVars, watchQueued, gridVars>>

tryAddAttendee ==
    /\ Idle /\ modal.open
    /\ LET v == Trim(attendeeInput)
       IN IF v = EmptyText
          THEN /\ attendeeError' = None
               /\ UNCHANGED <<modal, attendeeInput>>
          ELSE IF ~isValidEmail(v)
          THEN /\ attendeeError' = Some("format")
               /\ UNCHANGED <<modal, attendeeInput>>
          ELSE /\ attendeeError' = None
               /\ IF ~Includes(modal.attendees, v)
                  THEN /\ Len(modal.attendees) < MaxAttendees
                       /\ modal' = [modal EXCEPT !.attendees = Append(@, v)]
                  ELSE modal' = modal
               /\ attendeeInput' = EmptyText
    /\ UNCHANGED <<saving, calls, patchInFlight, editorSettled>>
    /\ UNCHANGED <<sessionVars, storeVars, watchQueued, gridVars>>

\* Array.prototype.splice(idx, 1)
Splice1(list, idx) ==
    LET n == Len(list)
        at == IF idx < 0 THEN (IF n + idx < 0 THEN 0 ELSE n + idx) ELSE (IF idx > n THEN n ELSE idx)
    IN IF at >= n THEN list
       ELSE SubSeq(list, 1, at) \o SubSeq(list, at + 2, n)

\* A removeAttendee on a list that openEdit took from the grid's event without
\* copying it: the splice shows in the event of the grid as well.
removeAttendeeAliased(idx) ==
    /\ Idle /\ modal.open
    /\ modal' = [modal EXCEPT !.attendees = Splice1(@, idx)]
    /\ displayed' = [k \in 1..Len(displayed) |->
                        IF modal.mode = "edit" /\ Some(displayed[k].id) = modal.id
                        THEN [displayed[k] EXCEPT !.extendedProps.attendees = Splice1(@, idx)]
                        ELSE displayed[k]]
    /\ UNCHANGED <<fetchInFlight, refetches>>
    /\ UNCHANGED <<saving, attendeeInput, attendeeError, calls, patchInFlight, editorSettled>>
    /\ UNCHANGED <<sessionVars, storeVars, watchQueued>>

removeAttendee(idx) ==
    /\ Idle /\ modal.open
    /\ modal' = [modal EXCEPT !.attendees = Splice1(@, idx)]
    /\ UNCHANGED <<saving, attendeeInput, attendeeError, calls, patchInFlight, editorSettled>>
    /\ UNCHANGED <<sessionVars, storeVars, watchQueued, gridVars>>

\* The "notify attendees" checkbox: rendered only when the list is not empty.
NotifyCheckbox(checked) ==
    /\ Len(modal.attendees) > 0
    /\ EditField("notifyAttendees", checked)

\* The header's close button: never disabled.
HeaderClose ==
    /\ Idle /\ modal.open
    /\ closeModal
    /\ UNCHANGED <<saving, calls, patchInFlight, editorSettled>>
    /\ UNCHANGED <<sessionVars, storeVars, watchQueued, gridVars>>

\* The cancel button: :disabled="saving".
CancelClick ==
    /\ Idle /\ modal.open /\ ~saving
    /\ closeModal
    /\ UNCHANGED <<saving, calls, patchInFlight, editorSettled>>
    /\ UNCHANGED <<sessionVars, storeVars, watchQueued, gridVars>>

DefaultSummary == <<"i", "l">>

\* A payload that always carries the location and description as typed.
SavePayloadKeepsBlank ==
    LET se == ensureEndAfterStart(DateOfLocal(Get(modal.startLocal)),
                                  IF IsSome(modal.endLocal) THEN Some(DateOfLocal(Get(modal.endLocal))) ELSE None)
    IN [summary |-> Trim(IF modal.title # EmptyText THEN modal.title ELSE DefaultSummary),
        start |-> se.start,
        end |-> se.end,
        attendees |-> modal.attendees,
        location |-> Some(modal.location),
        description |-> Some(modal.description)]

SavePayload ==
    LET se == ensureEndAfterStart(DateOfLocal(Get(modal.startLocal)),
                                  IF IsSome(modal.endLocal) THEN Some(DateOfLocal(Get(modal.endLocal))) ELSE None)
    IN [summary |-> Trim(IF modal.title # EmptyText THEN modal.title ELSE DefaultSummary),
        start |-> se.start,
        end |-> se.end,
        attendees |-> modal.attendees,
        location |-> IF Trim(modal.location) # EmptyText THEN Some(Trim(modal.location)) ELSE None,
        description |-> IF Trim(modal.description) # EmptyText THEN Some(Trim(modal.description)) ELSE None]

\* A send_updates that is sent whatever the number of attendees.
SendUpdatesIgnoresCount == IF modal.notifyAttendees THEN Some("all") ELSE Some("none")

SendUpdates ==
    IF Len(modal.attendees) > 0
    THEN (IF modal.notifyAttendees THEN Some("all") ELSE Some("none"))
    ELSE None

\* A calendar_id parameter that ignores the calendar the session recorded.
CalendarIdAlwaysPrimary == "primary"

CalendarIdParam == IF IsSome(modal.calendarId) /\ Get(modal.calendarId) # "" THEN Get(modal.calendarId) ELSE "primary"

\* A request of saveModal() / deleteEvent() in flight.  issuedFrom is history:
\* the editor as the handler read it when it issued the request.
Call(op, id, payload, sendUpdates) ==
    [op |-> op, id |-> id, calendar_id |-> CalendarIdParam, payload |-> payload, send_updates |-> sendUpdates,
     issuedFrom |-> modal]

AddCall(c) == calls (+) SetToBag({c})
DelCall(c) == calls (-) SetToBag({c})

\* A save button that is not disabled while saving.
SaveAlwaysEnabled == modal.open

\* The controls that call saveModal and deleteEvent: :disabled="saving".
SaveEnabled == modal.open /\ ~saving
DeleteEnabled == modal.open /\ modal.mode = "edit" /\ ~saving

\* A saveModal() that does not check the stored attendees before the request.
saveModalNoAttendeeCheck ==
    IF ~IsSome(modal.startLocal)
    THEN /\ editorSettled' = [op |-> "save", outcome |-> "noStart"]
         /\ UNCHANGED <<modal, saving, attendeeInput, attendeeError, calls, gridVars>>
    ELSE /\ BagCardinality(calls) < MaxCalls
         /\ saving' = TRUE
         /\ calls' = AddCall(Call(IF modal.mode = "create" THEN "create" ELSE "update",
                                  IF modal.mode = "create" THEN None ELSE modal.id,
                                  Some(SavePayload), SendUpdates))
         /\ UNCHANGED <<modal, attendeeInput, attendeeError, editorSettled, gridVars>>

\* saveModal() up to its await (or to its end when it does not await).
saveModal ==
    IF ~IsSome(modal.startLocal)
    THEN /\ editorSettled' = [op |-> "save", outcome |-> "noStart"]
         /\ UNCHANGED <<modal, saving, attendeeInput, attendeeError, calls, gridVars>>
    ELSE IF \E k \in 1..Len(modal.attendees) : ~isValidEmail(modal.attendees[k])
    THEN /\ attendeeError' = Some("list")
         /\ saving' = FALSE
         /\ editorSettled' = [op |-> "save", outcome |-> "invalid"]
         /\ UNCHANGED <<modal, attendeeInput, calls, gridVars>>
    ELSE IF modal.mode = "create"
    THEN /\ BagCardinality(calls) < MaxCalls
         /\ saving' = TRUE
         /\ calls' = AddCall(Call("create", None, Some(SavePayload), SendUpdates))
         /\ UNCHANGED <<modal, attendeeInput, attendeeError, editorSettled, gridVars>>
    ELSE IF IsSome(modal.id) /\ Get(modal.id) # ""
    THEN /\ BagCardinality(calls) < MaxCalls
         /\ saving' = TRUE
         /\ calls' = AddCall(Call("update", modal.id, Some(SavePayload), SendUpdates))
         /\ UNCHANGED <<modal, attendeeInput, attendeeError, editorSettled, gridVars>>
    ELSE /\ closeModal
         /\ CanRefetch /\ refetchEvents
         /\ saving' = FALSE
         /\ editorSettled' = [op |-> "save", outcome |-> "ok"]
         /\ calls' = calls

\* A deleteEvent() without its guard on the mode and the event id.
deleteEventNoGuard ==
    /\ BagCardinality(calls) < MaxCalls
    /\ saving' = TRUE
    /\ calls' = AddCall(Call("delete", modal.id, None, None))
    /\ UNCHANGED <<modal, attendeeInput, attendeeError, editorSettled>>

\* deleteEvent() up to its await.
deleteEvent ==
    IF modal.mode # "edit" \/ ~IsSome(modal.id) \/ Get(modal.id) = ""
    THEN /\ editorSettled' = [op |-> "delete", outcome |-> "notEdit"]
         /\ UNCHANGED <<modal, saving, attendeeInput, attendeeError, calls>>
    ELSE /\ BagCardinality(calls) < MaxCalls
         /\ saving' = TRUE
         /\ calls' = AddCall(Call("delete", modal.id, None, None))
         /\ UNCHANGED <<modal, attendeeInput, attendeeError, editorSettled>>

\* A click on the save button.
SaveClick ==
    /\ Idle /\ SaveEnabled
    /\ saveModal
    /\ UNCHANGED patchInFlight
    /\ UNCHANGED <<sessionVars, storeVars, watchQueued>>

\* A click on the delete button.
DeleteClick ==
    /\ Idle /\ DeleteEnabled
    /\ deleteEvent
    /\ UNCHANGED <<patchInFlight, gridVars>>
    /\ UNCHANGED <<sessionVars, storeVars, watchQueued>>

\* The handlers the component returns from setup(), called in any editor
\* state, whatever the template enables.
InvokeSave ==
    /\ Idle
    /\ saveModal
    /\ UNCHANGED patchInFlight
    /\ UNCHANGED <<sessionVars, storeVars, watchQueued>>

InvokeDelete ==
    /\ Idle
    /\ deleteEvent
    /\ UNCHANGED <<patchInFlight, gridVars>>
    /\ UNCHANGED <<sessionVars, storeVars, watchQueued>>

InvokeClose ==
    /\ Idle
    /\ closeModal
    /\ UNCHANGED <<saving, calls, patchInFlight, editorSettled>>
    /\ UNCHANGED <<sessionVars, storeVars, watchQueued, gridVars>>

\* A success path that closes the editor but forgets refetchEvents().
CallOkNoRefetch(c) ==
    /\ Idle /\ BagIn(c, calls)
    /\ calls' = DelCall(c)
    /\ closeModal
    /\ saving' = FALSE
    /\ editorSettled' = [op |-> IF c.op = "delete" THEN "delete" ELSE "save", outcome |-> "ok"]
    /\ UNCHANGED <<patchInFlight, gridVars>>
    /\ UNCHANGED <<sessionVars, storeVars, watchQueued>>

\* The request of a save or delete succeeds: closeModal, refetchEvents, finally.
CallOk(c) ==
    /\ Idle /\ BagIn(c, calls)
    /\ calls' = DelCall(c)
    /\ closeModal
    /\ CanRefetch /\ refetchEvents
    /\ saving' = FALSE
    /\ editorSettled' = [op |-> IF c.op = "delete" THEN "delete" ELSE "save", outcome |-> "ok"]
    /\ UNCHANGED patchInFlight
    /\ UNCHANGED <<sessionVars, storeVars, watchQueued>>

\* saveModal() / deleteEvent() without the finally: a failure leaves saving set.
CallFailKeepsSaving(c) ==
    /\ Idle /\ BagIn(c, calls)
    /\ calls' = DelCall(c)
    /\ saving' = saving
    /\ editorSettled' = [op |-> IF c.op = "delete" THEN "delete" ELSE "save", outcome |-> "fail"]
    /\ UNCHANGED <<modal, attendeeInput, attendeeError, patchInFlight>>
    /\ UNCHANGED <<sessionVars, storeVars, watchQueued, gridVars>>

\* The request of a save or delete fails: catch, finally.
CallFail(c) ==
    /\ Idle /\ BagIn(c, calls)
    /\ calls' = DelCall(c)
    /\ saving' = FALSE
    /\ editorSettled' = [op |-> IF c.op = "delete" THEN "delete" ELSE "save", outcome |-> "fail"]
    /\ UNCHANGED <<modal, attendeeInput, attendeeError, patchInFlight>>
    /\ UNCHANGED <<sessionVars, storeVars, watchQueued, gridVars>>

Init ==
    /\ localStorageSid = Some(1)
    /\ uuidCount = 1
    /\ storageAvailable = TRUE
    /\ authed = FALSE
    /\ profile = EmptyProfile
    /\ googleConnected = FALSE
    /\ googleEmail = None
    /\ busy = FALSE
    /\ initialized = FALSE
    /\ hasRefresh = FALSE
    /\ storeOps = EmptyBag
    /\ storeSettled = NoneSettled
    /\ watchQueued = FALSE
    /\ displayed = <<>>
    /\ fetchInFlight = 0
    /\ refetches = "none"
    /\ modal = NeutralModal
    /\ saving = FALSE
    /\ attendeeInput = EmptyText
    /\ attendeeError = None
    /\ calls = EmptyBag
    /\ patchInFlight = 0
    /\ editorSettled = [op |-> "none", outcome |-> "none"]

Next ==
    \/ fetchGoogleStatus
    \/ \E o \in BagToSet(storeOps), data \in StatusResponses : StatusOk(o, data)
    \/ \E o \in BagToSet(storeOps) : StatusFail(o)
    \/ \E libLoaded \in BOOLEAN : loginAndConnect(libLoaded)
    \/ \E o \in BagToSet(storeOps), code \in {None, Some("code")} : CodeReceived(o, code)
    \/ \E o \in BagToSet(storeOps) : ConnectOk(o)
    \/ \E o \in BagToSet(storeOps) : ConnectFail(o)
    \/ disconnectGoogle
    \/ \E o \in BagToSet(storeOps) : DisconnectOk(o)
    \/ \E o \in BagToSet(storeOps) : DisconnectFail(o)
    \/ logout
    \/ WatchConnection
    \/ FetchRange
    \/ \E items \in ItemLists : FetchOk(items)
    \/ FetchFail

\* The connection store with the grid's data source.
Spec == Init /\ [][Next]_vars

\* The same program in a browser whose localStorage may be unavailable.
InitSession ==
    /\ storageAvailable \in BOOLEAN
    /\ localStorageSid = (IF storageAvailable THEN Some(1) ELSE None)
    /\ uuidCount = (IF storageAvailable THEN 1 ELSE 0)
    /\ authed = FALSE
    /\ profile = EmptyProfile
    /\ googleConnected = FALSE
    /\ googleEmail = None
    /\ busy = FALSE
    /\ initialized = FALSE
    /\ hasRefresh = FALSE
    /\ storeOps = EmptyBag
    /\ storeSettled = NoneSettled
    /\ watchQueued = FALSE
    /\ displayed = <<>>
    /\ fetchInFlight = 0
    /\ refetches = "none"
    /\ modal = NeutralModal
    /\ saving = FALSE
    /\ attendeeInput = EmptyText
    /\ attendeeError = None
    /\ calls = EmptyBag
    /\ patchInFlight = 0
    /\ editorSettled = [op |-> "none", outcome |-> "none"]

SpecSession == InitSession /\ [][Next]_vars

\* fetchGoogleStatus over every shape of the response body, with logout and
\* the grid's reaction to the connection.
NextStatus ==
    \/ fetchGoogleStatus
    \/ \E o \in BagToSet(storeOps), data \in StatusBodies : StatusOk(o, data)
    \/ \E o \in BagToSet(storeOps) : StatusFail(o)
    \/ logout
    \/ WatchConnection
    \/ \E items \in ItemLists : FetchOk(items)
    \/ FetchFail

SpecStatus == Init /\ [][NextStatus]_vars

\* The editor with the grid, started connected: the state a successful status
\* fetch leaves.
InitEditor ==
    /\ localStorageSid = Some(1)
    /\ uuidCount = 1
    /\ storageAvailable = TRUE
    /\ authed = TRUE
    /\ profile = [name |-> Str("A"), email |-> Some(Str("e")), avatarUrl |-> Some(EmptyText)]
    /\ googleConnected = TRUE
    /\ googleEmail = Some(Str("e"))
    /\ busy = FALSE
    /\ initialized = TRUE
    /\ hasRefresh = TRUE
    /\ storeOps = EmptyBag
    /\ storeSettled = [kind |-> "fetch", outcome |-> "ok", returned |-> "void"]
    /\ watchQueued = FALSE
    /\ displayed = <<>>
    /\ fetchInFlight = 0
    /\ refetches = "none"
    /\ modal = NeutralModal
    /\ saving = FALSE
    /\ attendeeInput = EmptyText
    /\ attendeeError = None
    /\ calls = EmptyBag
    /\ patchInFlight = 0
    /\ editorSettled = [op |-> "none", outcome |-> "none"]

NextEditor ==
    \/ \E info \in Selections : select(info)
    \/ \E k \in 1..Len(displayed) : eventClick(k)
    \/ \E k \in 1..Len(displayed) : eventDrop(k)
    \/ PatchOk
    \/ PatchFail
    \/ EditField("startLocal", None)
    \/ HeaderClose
    \/ CancelClick
    \/ SaveClick
    \/ DeleteClick
    \/ \E c \in BagToSet(calls) : CallOk(c)
    \/ \E c \in BagToSet(calls) : CallFail(c)
    \/ logout
    \/ WatchConnection
    \/ FetchRange
    \/ \E items \in ItemLists : FetchOk(items)
    \/ FetchFail

\* The editor session: open, close, save and delete with the grid's data
\* source and the connection gate.
SpecEditor == InitEditor /\ [][NextEditor]_vars

\* Requests settle and queued watcher jobs run.
\* The editor's form: the fields, the attendee list and the notify checkbox,
\* with save and the grid's data source.
NextForm ==
    \/ \E info \in Selections : select(info)
    \/ \E k \in 1..Len(displayed) : eventClick(k)
    \/ \E t \in Titles : EditField("title", t)
    \/ \E raw \in RawAttendees : TypeAttendee(raw)
    \/ tryAddAttendee
    \/ \E idx \in 0..(Len(modal.attendees) - 1) : removeAttendee(idx)
    \/ \E checked \in BOOLEAN : NotifyCheckbox(checked)
    \/ CancelClick
    \/ SaveClick
    \/ \E c \in BagToSet(calls) : CallOk(c)
    \/ \E c \in BagToSet(calls) : CallFail(c)
    \/ \E items \in ItemLists : FetchOk(items)

SpecForm == InitEditor /\ [][NextForm]_vars

\* The editor's two time inputs, with save.
NextTimes ==
    \/ \E info \in Selections : select(info)
    \/ \E t \in LocalTimes : EditField("startLocal", Some(t))
    \/ \E t \in LocalTimes : EditField("endLocal", Some(t))
    \/ EditField("startLocal", None)
    \/ EditField("endLocal", None)
    \/ CancelClick
    \/ SaveClick
    \/ \E c \in BagToSet(calls) : CallOk(c)
    \/ \E c \in BagToSet(calls) : CallFail(c)
    \/ \E items \in ItemLists : FetchOk(items)

SpecTimes == InitEditor /\ [][NextTimes]_vars

\* The title of the editor and the summary of the payload it is saved with.
NextSummary ==
    \/ \E info \in Selections : select(info)
    \/ \E k \in 1..Len(displayed) : eventClick(k)
    \/ \E t \in SummaryTitles : EditField("title", t)
    \/ CancelClick
    \/ SaveClick
    \/ \E c \in BagToSet(calls) : CallOk(c)
    \/ \E c \in BagToSet(calls) : CallFail(c)
    \/ \E items \in ItemLists : FetchOk(items)

SpecSummary == InitEditor /\ [][NextSummary]_vars

\* removeAttendee is returned by setup(): it can be called with any number.
RemoveIndexes == (0 - MaxAttendees - 1)..(MaxAttendees + 1)

NextRemove ==
    \/ \E info \in Selections : select(info)
    \/ \E k \in 1..Len(displayed) : eventClick(k)
    \/ \E raw \in RawAttendees : TypeAttendee(raw)
    \/ tryAddAttendee
    \/ \E idx \in RemoveIndexes : removeAttendee(idx)
    \/ CancelClick
    \/ FetchRange
    \/ \E items \in ItemLists : FetchOk(items)

SpecRemove == InitEditor /\ [][NextRemove]_vars

\* The attendee list of the editor: type, add and remove, on a new event and
\* on the events of the grid.
NextAttendees ==
    \/ \E info \in Selections : select(info)
    \/ \E k \in 1..Len(displayed) : eventClick(k)
    \/ \E raw \in RawAttendees : TypeAttendee(raw)
    \/ tryAddAttendee
    \/ \E idx \in 0..(Len(modal.attendees) - 1) : removeAttendee(idx)
    \/ CancelClick
    \/ FetchRange
    \/ \E items \in ItemLists : FetchOk(items)

SpecAttendees == InitEditor /\ [][NextAttendees]_vars

\* The editor opened in create mode over every shape of openCreate's
\* arguments, with save.
NextCreate ==
    \/ \E info \in SelectionShapes : select(info)
    \/ CancelClick
    \/ SaveClick
    \/ \E c \in BagToSet(calls) : CallOk(c)
    \/ \E c \in BagToSet(calls) : CallFail(c)
    \/ \E items \in ItemLists : FetchOk(items)

SpecCreate == InitEditor /\ [][NextCreate]_vars

\* The editor's location and description fields, with save, on a new event
\* and on the events of the grid.
NextPayload ==
    \/ \E info \in Selections : select(info)
    \/ \E k \in 1..Len(displayed) : eventClick(k)
    \/ \E t \in FieldTexts : EditField("location", t)
    \/ \E t \in FieldTexts : EditField("description", t)
    \/ CancelClick
    \/ SaveClick
    \/ \E c \in BagToSet(calls) : CallOk(c)
    \/ \E c \in BagToSet(calls) : CallFail(c)
    \/ \E items \in ItemLists : FetchOk(items)

SpecPayload == InitEditor /\ [][NextPayload]_vars

\* The grid's data source over every shape of a wire event, with the editor
\* opened on the mapped event.
NextMapper ==
    \/ FetchRange
    \/ \E e \in WireShapes : FetchOk(<<e>>)
    \/ FetchFail
    \/ \E k \in 1..Len(displayed) : eventClick(k)
    \/ CancelClick

SpecMapper == InitEditor /\ [][NextMapper]_vars

\* The editor's handlers as operations: open by the grid, then close, save
\* and delete called in any editor state.
NextHandlers ==
    \/ \E info \in Selections : select(info)
    \/ \E k \in 1..Len(displayed) : eventClick(k)
    \/ InvokeSave
    \/ InvokeDelete
    \/ InvokeClose
    \/ \E c \in BagToSet(calls) : CallOk(c)
    \/ \E c \in BagToSet(calls) : CallFail(c)
    \/ FetchRange
    \/ \E items \in ItemLists : FetchOk(items)

SpecHandlers == InitEditor /\ [][NextHandlers]_vars

StatusSettles == \E o \in OpsAt("status") : (StatusFail(o) \/ \E data \in StatusResponses : StatusOk(o, data))
FetchSettles == FetchFail \/ \E items \in ItemLists : FetchOk(items)
SpecFair == Spec /\ WF_vars(StatusSettles) /\ WF_vars(WatchConnection) /\ WF_vars(FetchSettles)

\* ------------------------------------------------------------------------
\* Properties
\* ------------------------------------------------------------------------
\* A step in which a store operation of the given kind settles.
\* The steps of the store that call getSessionId().
CallsGetSessionId ==
    \/ fetchGoogleStatus
    \/ disconnectGoogle
    \/ \E o \in BagToSet(storeOps) :
          ConnectOk(o) \/ DisconnectOk(o) \/ (\E code \in {Some("code")} : CodeReceived(o, code))

StoreOpSettles(kind) == \E o \in BagToSet(storeOps) : o.kind = kind /\ storeOps' = DelOp(o)
\* A step in which the request of a save or delete settles.
CallSettles == \E c \in BagToSet(calls) : calls' = DelCall(c)

\* C1: in every reachable state isReady is a boolean, and it is true if and
\* only if authed and googleConnected are both true.
C1_IsReadyIff ==
    /\ isReady \in BOOLEAN
    /\ (isReady = TRUE) <=> (authed = TRUE /\ googleConnected = TRUE)
\* C1 witness: a loginAndConnect has settled and left the store ready.
C1_Witness == storeSettled.kind = "login" /\ storeSettled.returned = "true" /\ isReady

\* C2: no step taken while isReady is false adds a list request, and the
\* grid's own call of options.events while isReady is false issues no request
\* and gives the grid the empty list.
C2_GatedFetch ==
    [][ /\ (~isReady => fetchInFlight' <= fetchInFlight)
        /\ ((FetchRange /\ ~isReady) => (fetchInFlight' = fetchInFlight /\ displayed' = <<>>)) ]_vars
\* C2 witness: options.events has just been refused by the gate while the user
\* is signed in but the calendar is not connected.
C2_Witness == refetches = "gated" /\ authed /\ ~googleConnected /\ displayed = <<>> /\ fetchInFlight = 0

\* C3 (as claimed): whenever isReady is false and the connection watcher has
\* run, the grid holds no event.
C3_NoStaleData == (~isReady /\ ~watchQueued) => displayed = <<>>

\* C4: once initialized is true it stays true.
C4_InitializedMonotonic == [][initialized => initialized']_vars
\* C4 witness: initialized is still true after a logout and a later operation
\* that needed a new session identifier.
C4_Witness == initialized /\ uuidCount > 1 /\ storeOps # EmptyBag

\* MainView shows the loading view while the store is not initialized.
LoadingView == ~initialized

\* C5: every step in which a status request settles, with success or failure,
\* leaves initialized true; and, status requests settling eventually, a state
\* with a status request in flight leads to one where the loading view is left.
C5_InitializedAfterStatus ==
    /\ [][ (\E o \in OpsAt("status") : storeOps' = DelOp(o)) => initialized' ]_vars
    /\ ((OpsAt("status") # {}) ~> ~LoadingView)
\* C5 witness: the first status fetch failed and the loading view is left.
C5_Witness == storeSettled = [kind |-> "fetch", outcome |-> "statusFail", returned |-> "throw"] /\ ~authed /\ ~LoadingView

\* C6: every step in which a loginAndConnect or a disconnectGoogle settles,
\* whatever the outcome, leaves busy false.
C6_BusyReset ==
    [][ (StoreOpSettles("login") \/ StoreOpSettles("disconnect") \/ loginAndConnect(FALSE)) => busy' = FALSE ]_vars
\* C6 witness: a loginAndConnect settled on a failed connect request.
C6_Witness == storeSettled.kind = "login" /\ storeSettled.outcome = "connectFail" /\ ~busy /\ storeOps = EmptyBag

\* C7: every step in which a save or delete settles (its request succeeded or
\* failed, or the handler ended without a request) leaves the saving flag false.
C7_SavingReset ==
    [][ (CallSettles \/ (SaveClick /\ calls' = calls) \/ (DeleteClick /\ calls' = calls)) => saving' = FALSE ]_vars
\* C7 witness: a save failed at the backend; the editor is open and enabled.
C7_Witness == editorSettled = [op |-> "save", outcome |-> "fail"] /\ modal.open /\ ~saving /\ SaveEnabled

\* C8: with the save and delete buttons disabled while saving, at most one
\* save or delete request is in flight.
C8_OneCallInFlight == BagCardinality(calls) <= 1
\* C8 witness: a delete is in flight while the editor has been closed and
\* reopened for a new event; the save button is disabled.
C8_Witness ==
    /\ \E c \in BagToSet(calls) : c.op = "delete"
    /\ modal.open /\ modal.mode = "create" /\ saving /\ ~SaveEnabled

\* C9 (as claimed): while a save or delete request is in flight, no step other
\* than its settling changes the editor session, the form or the attendee input.
C9_ControlsDisabled ==
    [][ (calls # EmptyBag /\ calls' = calls) => UNCHANGED <<modal, attendeeInput>> ]_vars

\* C10: a successful save or delete leaves the editor in the neutral closed
\* state and calls options.events again (a request when ready, the gate's
\* empty list otherwise); the grid's events change only by a list response
\* or by being emptied.
C10_SuccessClosesAndRefetches ==
    [][ /\ (CallSettles /\ editorSettled'.outcome = "ok") =>
              /\ modal' = NeutralModal /\ attendeeInput' = EmptyText /\ attendeeError' = None
              /\ refetches' \in {"requested", "gated"}
              /\ IF isReady THEN fetchInFlight' = fetchInFlight + 1 /\ displayed' = displayed
                            ELSE fetchInFlight' = fetchInFlight /\ displayed' = <<>>
        /\ (displayed' # displayed => (fetchInFlight' = fetchInFlight - 1 \/ displayed' = <<>>)) ]_vars
\* C10 witness: a save succeeded; the editor is closed and the list request of
\* the refetch is in flight.
C10_Witness ==
    /\ editorSettled = [op |-> "save", outcome |-> "ok"]
    /\ modal = NeutralModal /\ ~saving /\ refetches = "requested" /\ fetchInFlight > 0

\* C11: when the request of a save or a delete fails, the editor is open with
\* the mode, event id, calendar id and form contents it had when the request
\* was issued, saving is false, no refetch is triggered and no further request
\* is issued by the failure.
C11_FailureKeepsEditor ==
    [][\A c \in BagToSet(calls) :
          (calls' = DelCall(c) /\ editorSettled'.outcome = "fail")
              => /\ modal'.open
                 /\ modal' = c.issuedFrom
                 /\ saving' = FALSE
                 /\ refetches' = refetches
                 /\ fetchInFlight' = fetchInFlight
                 /\ patchInFlight' = patchInFlight
                 /\ storeOps' = storeOps]_vars

C13_SendUpdates ==
    \A c \in BagToSet(calls) :
        c.op \in {"create", "update"}
            => c.send_updates = (IF Len(c.issuedFrom.attendees) = 0 THEN None
                                 ELSE IF c.issuedFrom.notifyAttendees THEN Some("all")
                                 ELSE Some("none"))

\* A save request with attendees and the checkbox ticked is in flight.
C13_Witness ==
    \E c \in BagToSet(calls) :
        /\ c.op \in {"create", "update"}
        /\ Len(Get(c.payload).attendees) > 0
        /\ c.issuedFrom.notifyAttendees
        /\ c.send_updates = Some("all")

\* C14: a save that passes validation issues exactly one request: in create
\* mode a create on calendar "primary", in edit mode an update addressed to
\* the event id and the calendar id openEdit recorded from the clicked event.
C14_OneMutation ==
    [][(SaveClick /\ IsSome(modal.startLocal)
                  /\ \A k \in 1..Len(modal.attendees) : isValidEmail(modal.attendees[k]))
          => \E c \in BagToSet(calls') :
                /\ calls' = calls (+) SetToBag({c})
                /\ patchInFlight' = patchInFlight
                /\ IF modal.mode = "create"
                   THEN c.op = "create" /\ c.id = None /\ c.calendar_id = "primary"
                   ELSE /\ c.op = "update"
                        /\ c.id = modal.id
                        /\ \E e \in {WireTimed, WireAllDay} :
                              /\ c.id = Some(e.id)
                              /\ c.calendar_id = mapFromBackend(e).extendedProps.calendarId]_vars

\* The update of the event of calendar "work" is the only request in flight.
C14_Witness ==
    /\ BagCardinality(calls) = 1
    /\ \E c \in BagToSet(calls) : c.op = "update" /\ c.id = Some(WireTimed.id) /\ c.calendar_id = "work"
    /\ saving

\* C15: deleteEvent issues a delete request, for the session's event id, only
\* in edit mode with an event id; in create mode or without an event id it
\* issues no request and changes neither the session, the form nor saving.
C15_DeleteGuard ==
    [][(InvokeDelete \/ DeleteClick)
          => IF modal.mode = "edit" /\ IsSome(modal.id)
             THEN \E c \in BagToSet(calls') :
                     /\ calls' = calls (+) SetToBag({c})
                     /\ c.op = "delete" /\ c.id = modal.id
             ELSE /\ calls' = calls
                  /\ modal' = modal
                  /\ attendeeInput' = attendeeInput
                  /\ attendeeError' = attendeeError
                  /\ saving' = saving]_vars

\* deleteEvent was called on an editor open in create mode and issued nothing.
C15_Witness ==
    /\ editorSettled = [op |-> "delete", outcome |-> "notEdit"]
    /\ modal.open /\ modal.mode = "create" /\ modal.id = None
    /\ calls = EmptyBag /\ ~saving

\* C16: closeModal called in any editor state (closed, open in create or edit
\* mode, with or without a request in flight) leaves open=false, mode=create,
\* no event id, no calendar id, every form field empty, no attendee,
\* notifyAttendees=false, and the attendee input and error cleared.
C16_CloseIsNeutral ==
    [][InvokeClose
          => /\ modal'.open = FALSE
             /\ modal'.mode = "create"
             /\ modal'.id = None
             /\ modal'.calendarId = None
             /\ modal'.title = EmptyText
             /\ modal'.startLocal = None
             /\ modal'.endLocal = None
             /\ modal'.location = EmptyText
             /\ modal'.description = EmptyText
             /\ modal'.attendees = <<>>
             /\ modal'.notifyAttendees = FALSE
             /\ attendeeInput' = EmptyText
             /\ attendeeError' = None]_vars

\* The editor was closed while the update of an event with attendees was in
\* flight and before any request settled.
C16_Witness ==
    /\ modal = NeutralModal /\ attendeeError = None
    /\ saving
    /\ editorSettled = [op |-> "none", outcome |-> "none"]
    /\ \E c \in BagToSet(calls) : c.op = "update" /\ Len(c.issuedFrom.attendees) > 0

\* C17: loginAndConnect never rejects.  It returns false without posting to
\* the connect endpoint when the identity library is not loaded or no code is
\* obtained, false when the connect request or the follow-up status fetch
\* fails, and otherwise the googleConnected value the status fetch has set.
C17_LoginNeverThrows ==
    [][/\ loginAndConnect(FALSE)
            => /\ storeOps' = storeOps
               /\ storeSettled'.kind = "login" /\ storeSettled'.returned = "false"
       /\ \A o \in BagToSet(storeOps) :
            (o.kind = "login" /\ storeOps' = DelOp(o))
                => /\ storeSettled'.kind = "login"
                   /\ storeSettled'.returned \in {"true", "false"}
                   /\ o.pc \in {"code", "connect"} => storeSettled'.returned = "false"
                   /\ o.pc = "status"
                        => storeSettled'.returned =
                              (IF storeSettled'.outcome = "ok" THEN BoolStr(googleConnected')
                               ELSE "false")]_vars

\* A loginAndConnect whose connect succeeded and whose status fetch failed
\* has returned false.
C17_Witness ==
    /\ storeSettled = [kind |-> "login", outcome |-> "statusFail", returned |-> "false"]
    /\ initialized /\ ~busy

\* C18 as stated: disconnectGoogle sets busy and posts, and every disconnect
\* that settles has issued its status re-fetch after the post (it settles
\* from the awaited status request), with busy false afterwards.
C18_EverySettledDisconnectRefetched ==
    [][/\ disconnectGoogle => busy'
       /\ \A o \in BagToSet(storeOps) :
            (o.kind = "disconnect" /\ storeOps' = DelOp(o))
                => o.pc = "status" /\ busy' = FALSE]_vars

\* C18 amended: disconnectGoogle sets busy and posts; a disconnect whose post
\* succeeded settles from the status re-fetch issued after the post, a
\* disconnect whose post failed settles, rejecting, without a status
\* re-fetch; busy is false after it settles either way.
C18_DisconnectRefetchesAfterPost ==
    [][/\ disconnectGoogle => busy'
       /\ \A o \in BagToSet(storeOps) :
            (o.kind = "disconnect" /\ storeOps' = DelOp(o))
                => /\ busy' = FALSE
                   /\ storeSettled'.kind = "disconnect"
                   /\ IF o.pc = "status"
                      THEN storeSettled'.outcome \in {"ok", "statusFail"}
                      ELSE /\ o.pc = "post"
                           /\ storeSettled'.outcome = "postFail"
                           /\ storeSettled'.returned = "throw"
                           /\ UNCHANGED <<authed, googleConnected, googleEmail, profile>>]_vars

\* A disconnect whose post failed has settled: busy is false and the store
\* still shows the connection, no status having been fetched.
C18_Witness ==
    /\ storeSettled = [kind |-> "disconnect", outcome |-> "postFail", returned |-> "throw"]
    /\ ~busy /\ googleConnected /\ storeOps = EmptyBag

\* C19: logout, in any store state, issues no backend request and leaves
\* authed=false, googleConnected=false (so isReady=false), googleEmail=null,
\* the profile cleared, initialized=true and no session identifier in
\* localStorage.
C19_LogoutResets ==
    [][logout
          => /\ storeOps' = storeOps
             /\ fetchInFlight' = fetchInFlight
             /\ calls' = calls
             /\ patchInFlight' = patchInFlight
             /\ authed' = FALSE
             /\ googleConnected' = FALSE
             /\ isReady' = FALSE
             /\ googleEmail' = None
             /\ profile' = [name |-> EmptyText, email |-> None, avatarUrl |-> None]
             /\ initialized' = TRUE
             /\ localStorageSid' = None]_vars

\* logout ran on a connected store while an operation was in flight: the
\* refresh flag of the last status is still set, the rest is reset.
C19_Witness ==
    /\ hasRefresh /\ ~authed /\ ~googleConnected /\ googleEmail = None
    /\ localStorageSid = None /\ initialized
    /\ storeOps # EmptyBag

\* C20: the session identifier is stable and regenerated only by logout.  A
\* getSessionId() call that finds an identifier returns it and leaves it
\* stored; the stored identifier is removed by logout only; the first call
\* after a logout generates and stores an identifier that differs from every
\* identifier used before (the one in use is always the last generated).
C20_SessionIdStable ==
    /\ [](IsSome(localStorageSid) => Get(localStorageSid) = uuidCount)
    /\ [][/\ CallsGetSessionId
                => /\ IsSome(localStorageSid')
                   /\ IsSome(localStorageSid) => UNCHANGED sessionVars
                   /\ ~IsSome(localStorageSid)
                        => /\ Get(localStorageSid') = uuidCount + 1
                           /\ uuidCount' = uuidCount + 1
          /\ (IsSome(localStorageSid) /\ localStorageSid' # localStorageSid)
                => logout /\ localStorageSid' = None]_vars

\* After a logout a second identifier was generated and stored, and an
\* operation that sent it is in flight.
C20_Witness ==
    /\ uuidCount = 2 /\ localStorageSid = Some(2)
    /\ storeOps # EmptyBag

\* C21: when localStorage is unavailable, getSessionId() still returns an
\* identifier: no operation that calls it ends on a storage error.
C21_IdentifierWithoutStorage ==
    [][CallsGetSessionId => storeSettled'.outcome # "storageFail"]_vars

\* C22: after a successful status fetch, authed is true exactly when the
\* body holds a profile or an email (a non-empty one), googleConnected is the
\* body's connected (false when absent), googleEmail its email (null when
\* absent), hasRefresh its has_refresh (false when absent); a body
\* {connected: true, email, profile} gives authed, googleConnected, isReady.
C22_StatusApplied ==
    [][\A o \in BagToSet(storeOps), data \in StatusBodies :
          StatusOk(o, data)
              => /\ authed' = (data.profile # None \/ (data.email # None /\ data.email # Some(EmptyText)))
                 /\ googleConnected' = (data.connected = Some(TRUE))
                 /\ googleEmail' = data.email
                 /\ hasRefresh' = (data.has_refresh = Some(TRUE))
                 /\ (data.connected = Some(TRUE) /\ data.email = Some(Str("e")) /\ data.profile # None)
                        => (authed' /\ googleConnected' /\ isReady')]_vars

\* A body with a profile, no email and no connected field was applied.
C22_Witness ==
    /\ storeSettled = [kind |-> "fetch", outcome |-> "ok", returned |-> "void"]
    /\ authed /\ profile.name = Str("A") /\ googleEmail = None
    /\ ~googleConnected /\ ~isReady /\ hasRefresh

\* C23: while isReady is false, select and eventClick leave the editor
\* session and form unchanged (the editor does not open) and eventDrop /
\* eventResize issue no backend request.
C23_GridCallbacksGated ==
    [][(~isReady /\ (\/ \E info \in Selections : select(info)
                     \/ \E k \in 1..Len(displayed) : eventClick(k) \/ eventDrop(k)))
          => /\ modal' = modal /\ ~modal'.open
             /\ attendeeInput' = attendeeInput
             /\ attendeeError' = attendeeError
             /\ patchInFlight' = patchInFlight
             /\ calls' = calls
             /\ fetchInFlight' = fetchInFlight]_vars

\* An event left on the grid was dragged while the store was logged out: no
\* PATCH is in flight.
C23_Witness ==
    /\ editorSettled = [op |-> "eventDrop", outcome |-> "gated"]
    /\ ~isReady /\ displayed # <<>>
    /\ patchInFlight = 0 /\ ~modal.open

\* C24: every eventDrop / eventResize handled while ready issues its PATCH
\* and is then followed by a grid refetch: when the PATCH of a drag or resize
\* settles, refetchEvents() runs (a list request when the store is ready).
C24_DragIsRefetched ==
    [][patchInFlight' < patchInFlight
          => /\ refetches' = (IF isReady THEN "requested" ELSE "gated")
             /\ isReady => fetchInFlight' = fetchInFlight + 1]_vars

\* C25: every transport failure is caught at its call site: no operation of
\* the store hands a failure to its caller (none settles by rejecting).
C25_NoFailurePropagates == storeSettled.returned # "throw"

\* C26: for every start s and every end e (possibly absent) of the form, the
\* saved start is s and the saved end is strictly greater; the end is s plus
\* one hour (60 minutes) exactly when e is absent or e <= s, and is e when
\* e > s.
C26_EndAfterStart ==
    \A c \in BagToSet(calls) :
        c.op \in {"create", "update"}
            => LET s == Get(c.issuedFrom.startLocal) - LocalOffset
                   e == c.issuedFrom.endLocal
                   late == e = None \/ Get(e) - LocalOffset <= s
                   p == Get(c.payload)
               IN /\ p.start = s
                  /\ p.end > p.start
                  /\ late => p.end = s + 60
                  /\ ~late => p.end = Get(e) - LocalOffset
                  /\ (p.end = s + 60) => (late \/ Get(e) - LocalOffset = s + 60)

\* A save whose form had the end equal to the start is in flight with an end
\* one hour after the start.
C26_Witness ==
    \E c \in BagToSet(calls) :
        /\ c.op = "create"
        /\ c.issuedFrom.endLocal = c.issuedFrom.startLocal
        /\ Get(c.payload).end = Get(c.payload).start + 60

\* C27: for every wire event, the mapped allDay is true exactly when
\* start.date is present and start.dateTime is absent, and the mapped start
\* and end are the dateTime field when present, else the date field.
C27_AllDayMapping ==
    [][\A e \in WireShapes :
          FetchOk(<<e>>)
              => /\ Len(displayed') = 1
                 /\ displayed'[1].allDay = (e.start.date # None /\ e.start.dateTime = None)
                 /\ displayed'[1].start = (IF e.start.dateTime # None THEN e.start.dateTime ELSE e.start.date)
                 /\ displayed'[1].end = (IF e.end.dateTime # None THEN e.end.dateTime ELSE e.end.date)]_vars

\* The grid holds an event mapped from a start with both fields and an end
\* with a date only: timed, start from dateTime, end from date.
C27_Witness ==
    /\ Len(displayed) = 1
    /\ displayed[1].start = Some(600) /\ displayed[1].end = Some(2880)
    /\ ~displayed[1].allDay

\* C28: in every save payload the location (resp. description) key is
\* present exactly when the trimmed form value is not empty and then holds
\* the trimmed value; the attendees key is always present and equals the
\* form's attendee list.
C28_OptionalKeys ==
    \A c \in BagToSet(calls) :
        c.op \in {"create", "update"}
            => LET p == Get(c.payload)
                   f == c.issuedFrom
               IN /\ (p.location # None) = (Trim(f.location) # EmptyText)
                  /\ p.location # None => Get(p.location) = Trim(f.location)
                  /\ (p.description # None) = (Trim(f.description) # EmptyText)
                  /\ p.description # None => Get(p.description) = Trim(f.description)
                  /\ p.attendees = f.attendees

\* A save of a form with a blank location and a padded description is in
\* flight: no location key, the description trimmed, an empty attendee list.
C28_Witness ==
    \E c \in BagToSet(calls) :
        /\ c.op = "create"
        /\ c.issuedFrom.location = <<" ">> /\ Get(c.payload).location = None
        /\ c.issuedFrom.description = <<" ", "L", " ">> /\ Get(c.payload).description = Some(<<"L">>)
        /\ Get(c.payload).attendees = <<>>

\* C29: openCreate(title, rangeStart, rangeEnd, isAllDay) sets the form end
\* to start + 1 hour when isAllDay, whatever rangeEnd is; to rangeEnd when
\* not isAllDay and rangeEnd is present; to start + 1 hour when not isAllDay
\* and rangeEnd is absent.  It sets mode=create, no event id and calendar
\* "primary".
C29_CreateSeedsEnd ==
    [][\A info \in SelectionShapes :
          (isReady /\ select(info))
              => LET start == Get(info.startStr) + LocalOffset
                 IN /\ modal'.open /\ modal'.mode = "create"
                    /\ modal'.id = None /\ modal'.calendarId = Some("primary")
                    /\ modal'.startLocal = Some(start)
                    /\ modal'.endLocal =
                          (IF info.allDay THEN Some(start + 60)
                           ELSE IF info.endStr # None THEN Some(Get(info.endStr) + LocalOffset)
                           ELSE Some(start + 60))]_vars

\* The editor is open on a timed selection without an end: the end is one
\* hour after the start.
C29_Witness ==
    /\ modal.open /\ modal.mode = "create" /\ ~modal.fromAllDay
    /\ modal.startLocal = Some(600 + LocalOffset)
    /\ modal.endLocal = Some(660 + LocalOffset)

\* C30: attendee add is idempotent.  Adding a valid email that the list
\* holds leaves the list as it is, adding one it does not hold appends it,
\* and on a list without duplicates the added email then occurs exactly
\* once; so a list built from the empty list of create mode by adds and
\* removes never holds a duplicate.
C30_AddIdempotent ==
    /\ [](modal.mode = "create"
            => \A i, j \in 1..Len(modal.attendees) :
                  modal.attendees[i] = modal.attendees[j] => i = j)
    /\ [][(tryAddAttendee /\ Trim(attendeeInput) # EmptyText /\ isValidEmail(Trim(attendeeInput)))
             => LET v == Trim(attendeeInput)
                    had == \E i \in 1..Len(modal.attendees) : modal.attendees[i] = v
                IN /\ had => modal'.attendees = modal.attendees
                   /\ ~had => modal'.attendees = Append(modal.attendees, v)
                   /\ (\A i, j \in 1..Len(modal.attendees) :
                          modal.attendees[i] = modal.attendees[j] => i = j)
                        => \E i \in 1..Len(modal'.attendees) :
                              /\ modal'.attendees[i] = v
                              /\ \A j \in 1..Len(modal'.attendees) :
                                    modal'.attendees[j] = v => j = i]_vars

\* In create mode an email was added and the same email, padded, is typed
\* again.
C30_Witness ==
    /\ modal.open /\ modal.mode = "create"
    /\ modal.attendees = <<<<"a", "@", "b", ".", "c">>>>
    /\ attendeeInput = <<"a", "@", "b", ".", "c">>

\* C31: tryAddAttendee fails validation without throwing.  An empty or
\* malformed trimmed input sets the field error and leaves the list alone; an
\* email the list holds leaves the list alone and sets no error; a valid new
\* email is appended and the input cleared.
C31_AddValidates ==
    [][tryAddAttendee
         => LET v == Trim(attendeeInput)
                valid == v # EmptyText /\ isValidEmail(v)
            IN /\ ~valid => /\ attendeeError' # None
                            /\ modal'.attendees = modal.attendees
               /\ (valid /\ Includes(modal.attendees, v))
                     => /\ attendeeError' = None
                        /\ modal'.attendees = modal.attendees
               /\ (valid /\ ~Includes(modal.attendees, v))
                     => /\ modal'.attendees = Append(modal.attendees, v)
                        /\ attendeeInput' = EmptyText]_vars

C33_SummaryNeverEmpty ==
    \A c \in BagToSet(calls) :
        c.op \in {"create", "update"}
            => LET title == c.issuedFrom.title
                   summary == Get(c.payload).summary
               IN /\ summary # EmptyText
                  /\ summary = (IF Trim(title) # EmptyText THEN Trim(title) ELSE DefaultSummary)

\* C34: removeAttendee(index) removes the element at that position and keeps
\* the order of the others when 0 <= index < length, and leaves the list as
\* it is for every other index, negative ones included.
C34_RemoveByPosition ==
    [][\A idx \in RemoveIndexes :
          removeAttendee(idx)
              => LET list == modal.attendees
                 IN modal'.attendees =
                       (IF 0 <= idx /\ idx < Len(list)
                        THEN SubSeq(list, 1, idx) \o SubSeq(list, idx + 2, Len(list))
                        ELSE list)]_vars

\* C35: a save or delete response affects only the editor session that
\* issued it.  When the editor was closed and opened again on another event
\* or on a new selection while the request was in flight, the success
\* response leaves the editor and its form as they are.
C35_ResponseKeepsNewerSession ==
    [][\A c \in BagToSet(calls) :
          (/\ CallOk(c)
           /\ modal.open
           /\ (modal.mode # c.issuedFrom.mode \/ modal.id # c.issuedFrom.id))
              => /\ modal' = modal
                 /\ attendeeInput' = attendeeInput]_vars

\* C36: the connection gate covers mutations: saveModal() and deleteEvent()
\* issue no create, update or delete request in a state where isReady is
\* false, also when the connection was lost while the editor was open.
C36_MutationsGated ==
    [][BagCardinality(calls') > BagCardinality(calls) => isReady]_vars

\* C37: logout is not undone by an earlier request.  From logout() until the
\* next request is started (the session identifier is still removed: every
\* request reads it and stores a new one), authed and googleConnected are
\* false, whatever response arrives.
C37_LogoutNotUndone ==
    (storageAvailable /\ localStorageSid = None) => (~authed /\ ~googleConnected)

\* C38: a fetchGoogleStatus() whose request fails changes only initialized:
\* authed, googleConnected, googleEmail, profile and hasRefresh keep their
\* values and initialized is true afterwards, so a failed first fetch leaves
\* the store anonymous and initialized.
C38_FailedFetchKeepsStatus ==
    [][\A o \in OpsAt("status") :
          StatusFail(o)
              => /\ authed' = authed /\ googleConnected' = googleConnected
                 /\ googleEmail' = googleEmail /\ profile' = profile
                 /\ hasRefresh' = hasRefresh
                 /\ initialized'
                 /\ o.kind = "fetch" => busy' = busy
                 /\ ~initialized => (~authed' /\ ~googleConnected')]_vars

\* A direct status fetch failed on a connected store: it is still connected.
C38_Witness ==
    /\ storeSettled = [kind |-> "fetch", outcome |-> "statusFail", returned |-> "throw"]
    /\ authed /\ googleConnected /\ initialized

\* C39: the editor session is well formed in every reachable state.  Closed:
\* mode create, no event id, no calendar id, empty form.  Open in create
\* mode: no event id, calendar "primary".  Open in edit mode: the id and the
\* calendar id ("primary" when it has none) of the event openEdit was given,
\* an event of the backend.
C39_SessionWellFormed ==
    /\ [](~modal.open => modal = NeutralModal)
    /\ []((modal.open /\ modal.mode = "create")
             => (modal.id = None /\ modal.calendarId = Some("primary")))
    /\ []((modal.open /\ modal.mode = "edit")
             => /\ modal.id # None
                /\ \E items \in ItemLists : \E k \in 1..Len(items) :
                      LET ev == mapFromBackend(items[k])
                      IN /\ modal.id = Some(ev.id)
                         /\ modal.calendarId = Some(ev.extendedProps.calendarId))
    /\ [][\A k \in 1..Len(displayed) :
             (isReady /\ eventClick(k))
                 => /\ modal'.open /\ modal'.mode = "edit"
                    /\ modal'.id = Some(displayed[k].id)
                    /\ modal'.calendarId = Some(displayed[k].extendedProps.calendarId)]_vars

\* The editor is open on ev1, an event of the calendar "work".
C39_Witness ==
    /\ modal.open /\ modal.mode = "edit"
    /\ modal.id = Some("ev1") /\ modal.calendarId = Some("work")

\* C40: busy is true in every state in which a loginAndConnect() or a
\* disconnectGoogle() is still in flight, also when two of them overlap and
\* one settles before the other.
C40_BusyWhileInFlight ==
    (\E o \in BagToSet(storeOps) : o.kind \in {"login", "disconnect"}) => busy

====
